---- MODULE Spec2Model ----
(***************************************************************************)
(* Model of object-detection/app/object_detection.c: the startup in main,  *)
(* the periodic detect_objects callback (frame acquisition, the three      *)
(* larod jobs, the rewind of the detector output descriptors, the crop     *)
(* loop and the overlay list) and the bounding-box draw callback.          *)
(*                                                                         *)
(* Units.  The output tensors hold C floats.  Scores and box components    *)
(* are modelled as integers in hundredths (score 90 is 0.9f, left 25 is    *)
(* 0.25f), so that `scores[i] >= threshold / 100.0` is `score >= threshold`*)
(* and `left * heightFrameHD` is (left * heightFrameHD) \div 100 after the *)
(* conversion to unsigned int.  The detection count and the class values   *)
(* are modelled as the integers their (int) casts give.                    *)
(*                                                                         *)
(* Build.  The overlay code is compiled under                              *)
(* `#if defined(ENABLE_OVERLAY) || defined(ENABLE_CV25_OVERLAY)`; the      *)
(* model is the build with ENABLE_CV25_OVERLAY.                            *)
(***************************************************************************)
EXTENDS Integers, Sequences, FiniteSets, TLC

\* ------------------------------------------------------------------ bounds
\* Number of timer ticks explored.
MaxTicks == 2
\* Number of leading detection slots the modelled detector fills with
\* non-zero data; the remaining slots of each output tensor stay zero.
MaxDet == 2

\* The image utilities can fail in the first MaxFailTick ticks.
MaxFailTick == 1
MaxLines == 2

\* ------------------------------------------------------- program constants
CHANNELS == 3
FLOATSIZE == 4
TENSOR1SIZE == 80 * FLOATSIZE
TENSOR2SIZE == 20 * FLOATSIZE
TENSOR3SIZE == 20 * FLOATSIZE
TENSOR4SIZE == 1 * FLOATSIZE
OBJECT_OVERLAYS_MAX_LENGTH == 5
CLASS_FIELD_SIZE == 50
LINE_MAX_LEN == 60
\* '\n' and '\0'
NL == 10
NUL == 0

\* --------------------------------------------------------------- helpers
Last(s) == s[Len(s)]
\* C arrays are indexed from 0, TLA+ sequences from 1.
At(arr, idx) == arr[idx + 1]

\* ------------------------------------------------------------ label file
\* The bytes of "person".
Person == <<112, 101, 114, 115, 111, 110>>

\* a\nb\nc\nperson\n : four labels, class 3 is "person"
LabelFile4 == <<97, NL, 98, NL, 99, NL>> \o Person \o <<NL>>
\* a\nb : two labels, no newline at the end of the file
LabelFile2 == <<97, NL, 98>>

\* A line of n bytes, all of them the k-th letter of the alphabet.
LineOf(k, n) == [j \in 1 .. n |-> 96 + k]

\* The line lengths around the cap of LINE_MAX_LEN bytes.
LineLengths ==
    { 1, LINE_MAX_LEN - 1, LINE_MAX_LEN, LINE_MAX_LEN + 1, LINE_MAX_LEN + 2 }

\* The file whose lines have the lengths lens, every line but the last
\* ended by a newline, the last one too when nlAtEnd.
RECURSIVE FileOf(_, _, _)
FileOf(lens, k, nlAtEnd) ==
    IF k > Len(lens) THEN <<>>
    ELSE LineOf(k, lens[k])
         \o (IF k < Len(lens) \/ nlAtEnd THEN <<NL>> ELSE <<>>)
         \o FileOf(lens, k + 1, nlAtEnd)

\* Label files of up to MaxLines lines with lengths around the cap.
LongLabelsFileArgs ==
    { [present |-> TRUE, data |-> FileOf(lens, 1, nl)] :
        lens \in UNION { [1 .. n -> LineLengths] : n \in 1 .. MaxLines },
        nl \in BOOLEAN }

\* A labels file of 0 bytes.
EmptyLabelsFile == [present |-> TRUE, data |-> <<>>]

\* args.labelsFile: NULL (present = FALSE) or a path to a file with this data.
LabelsFileArgs ==
    { [present |-> FALSE, data |-> <<>>],
      [present |-> TRUE, data |-> LabelFile4],
      [present |-> TRUE, data |-> LabelFile2] }

\* parseLabels, the bound labelsFileSize - 1 of the line-counting loop, in
\* size_t: for size 0 the subtraction wraps to the largest value of the type
\* (here the largest integer of the model checker).
CountLoopEnd(size) == IF size = 0 THEN 2147483647 ELSE size - 1

\* parseLabels, line counting: newlines among all bytes but the last, plus one
\* (the newlines the loop finds inside the file contents).
CountLines(data) ==
    Cardinality({k \in 0 .. (Len(data) - 2) : At(data, k) = NL}) + 1

\* The numbers of a set in the order a loop over ascending indices meets them.
Ascending(S) ==
    [ n \in 1 .. Cardinality(S) |->
        CHOOSE b \in S : Cardinality({ t \in S : t < b }) = n - 1 ]

\* parseLabels, the start offset of every line: offset 0, and the byte after
\* every newline that is not the last byte of the file.
LineStarts(data, k) ==
    Ascending({ j + 1 : j \in { m \in k .. (Len(data) - 2) : At(data, m) = NL } })

\* parseLabels, the buffer after every newline is replaced by NUL and a NUL
\* is stored after the file contents (the buffer has Len(data) + 1 bytes).
Terminated(data) ==
    [k \in 1 .. (Len(data) + 1) |->
        IF k = Len(data) + 1 THEN NUL
        ELSE IF data[k] = NL THEN NUL ELSE data[k]]

\* strnlen(buf + off, max)
strnlen(buf, off, max) ==
    LET stops == { n \in 0 .. max :
                     n = max \/ off + n >= Len(buf) \/ At(buf, off + n) = NUL }
    IN CHOOSE n \in stops : \A m \in stops : n <= m

\* parseLabels, the capping loop: for every line of LINE_MAX_LEN bytes or more
\* a NUL is stored at line start + LINE_MAX_LEN + 1.
RECURSIVE CapLines(_, _, _)
CapLines(buf, starts, k) ==
    IF k > Len(starts) THEN buf
    ELSE LET off == starts[k]
             pos == off + LINE_MAX_LEN + 1
             capped == IF strnlen(buf, off, LINE_MAX_LEN) >= LINE_MAX_LEN
                          /\ pos < Len(buf)
                       THEN [buf EXCEPT ![pos + 1] = NUL]
                       ELSE buf
         IN CapLines(capped, starts, k + 1)

\* parseLabels, the capping loop: the offsets at which it stores a NUL, as
\* records of the line number (from 1) and the offset into the buffer,
\* whether the offset lies inside the buffer or not.
RECURSIVE CapWrites(_, _, _)
CapWrites(buf, starts, k) ==
    IF k > Len(starts) THEN {}
    ELSE LET off == starts[k]
             pos == off + LINE_MAX_LEN + 1
             long == strnlen(buf, off, LINE_MAX_LEN) >= LINE_MAX_LEN
             capped == IF long /\ pos < Len(buf)
                       THEN [buf EXCEPT ![pos + 1] = NUL]
                       ELSE buf
         IN (IF long THEN { [line |-> k, pos |-> pos] } ELSE {})
            \cup CapWrites(capped, starts, k + 1)

\* parseLabels on a non-empty readable file: the label array (offsets into
\* the data buffer), the data buffer and the number of labels.
parseLabels(data) ==
    LET starts == <<0>> \o LineStarts(data, 0)
    IN [ labels |-> starts,
         labelFileData |-> CapLines(Terminated(data), starts, 1),
         numLabels |-> CountLines(data) ]

\* The C string that starts at offset off of buf.
CStr(buf, off) == SubSeq(buf, off + 1, off + strnlen(buf, off, Len(buf)))

\* ------------------------------------------------------ detector output
\* One detection as the detector writes it into its four output tensors:
\* score and box components in hundredths, class as an integer.  The tensors
\* hold raw floats, and the code checks no range: one score is negative and
\* one box reaches below the frame (bottom 1.2).
DetChoices ==
    << [score |-> 90, class |-> 3, top |-> 10, left |-> 10, bottom |-> 60, right |-> 60],
       [score |-> 30, class |-> 1, top |-> 25, left |-> 25, bottom |-> 75, right |-> 75],
       [score |-> 0, class |-> 2, top |-> 0, left |-> 50, bottom |-> 50, right |-> 100],
       [score |-> -10, class |-> 0, top |-> 0, left |-> 0, bottom |-> 100, right |-> 100],
       [score |-> 60, class |-> 1, top |-> 50, left |-> 50, bottom |-> 120, right |-> 100] >>

\* The detections the detector writes into its leading MaxDet slots: the
\* choices above, starting at choice s.
Scene(s) ==
    [k \in 1 .. MaxDet |-> DetChoices[((s + k - 2) % Len(DetChoices)) + 1]]

Scenes == { Scene(s) : s \in 1 .. Len(DetChoices) }

\* What one inference writes: the detections of a scene and the value of
\* numberOfDetections[0].  The tensor is a raw float, so besides the counts
\* 0 .. MaxDet there is a negative count and a count above the 20 slots of
\* the score tensor, which is also above the capacity of the overlay array
\* (slots the detector did not fill read as zero).
DetectorOutputs ==
    { [dets |-> d, n |-> n] : d \in Scenes, n \in 0 .. MaxDet }
    \cup { [dets |-> Scene(1), n |-> n] :
             n \in {-1, (TENSOR3SIZE \div FLOATSIZE) + 1} }

\* What the detector writes when the HD capture is taller than wide: one
\* detection near the left edge of the frame.
TallDet ==
    [score |-> 90, class |-> 3, top |-> 10, left |-> 5, bottom |-> 60, right |-> 15]

\* The detector outputs explored for an HD capture of w x h pixels.
OutputsFor(w, h) ==
    IF h > w
    THEN { [dets |-> << TallDet >> \o SubSeq(Scene(1), 2, MaxDet), n |-> 1] }
    ELSE DetectorOutputs

\* The values args.threshold takes in the model.
ThresholdArgs == {0, 50}

\* The contents of the four output tensors for detections dets and count n.
RECURSIVE Flatten(_, _)
Flatten(dets, k) ==
    IF k > Len(dets) THEN <<>>
    ELSE <<dets[k].top, dets[k].left, dets[k].bottom, dets[k].right>>
         \o Flatten(dets, k + 1)

TensorData(dets, n) ==
    << Flatten(dets, 1),
       [k \in 1 .. Len(dets) |-> dets[k].class],
       [k \in 1 .. Len(dets) |-> dets[k].score],
       <<n>> >>

\* Byte size of detector output tensor k (1..4).
TensorSize(k) == <<TENSOR1SIZE, TENSOR2SIZE, TENSOR3SIZE, TENSOR4SIZE>>[k]

\* A file of tensor-sized chunks; each chunk carries the frame it was
\* computed from (src, 0 for the zero bytes ftruncate gives) and its floats.
ZeroChunk == [src |-> 0, data |-> <<>>]

\* Reading float idx of a chunk: the detector fills the leading slots, the
\* rest of the tensor is zero.
ReadF(chunk, idx) == IF idx < Len(chunk.data) THEN At(chunk.data, idx) ELSE 0

\* write(fd, chunk) at byte offset pos of a file of chunks of size bytes.
WriteAt(file, pos, size, chunk) ==
    LET c == (pos \div size) + 1
    IN IF c <= Len(file) THEN [file EXCEPT ![c] = chunk]
       ELSE Append(file, chunk)

\* ------------------------------------------------------- setup resources
\* What the platform reports during setup: the HD resolution
\* chooseStreamResolution(1280, 720, ...) gives, and pitches[0] of the
\* low-res preprocessor's input tensor (NV12 at the 640 x 360 stream), of its
\* output tensor and of the high-res preprocessor's output tensor.  The
\* 640 x 480 platform reports output rows of four bytes per pixel for the
\* high-res preprocessor, the third platform for the low-res one.  The last
\* platform gives an HD resolution that is taller than wide (a rotated
\* 9:16 capture).
Platforms ==
    { [hd |-> <<1280, 720>>, ppInput |-> (640 * 360 * CHANNELS) \div 2,
       ppOutput |-> 300 * 300 * CHANNELS,
       ppOutputHD |-> 1280 * 720 * CHANNELS],
      [hd |-> <<640, 480>>, ppInput |-> (640 * 360 * CHANNELS) \div 2,
       ppOutput |-> 300 * 300 * CHANNELS,
       ppOutputHD |-> 640 * 480 * (CHANNELS + 1)],
      [hd |-> <<1280, 720>>, ppInput |-> (640 * 360 * CHANNELS) \div 2,
       ppOutput |-> 300 * 300 * (CHANNELS + 1),
       ppOutputHD |-> 1280 * 720 * CHANNELS],
      [hd |-> <<720, 1280>>, ppInput |-> (640 * 360 * CHANNELS) \div 2,
       ppOutput |-> 300 * 300 * CHANNELS,
       ppOutputHD |-> 720 * 1280 * CHANNELS] }

\* The values args.width and args.height take in the model.
InputSizeArgs == {300}

\* The eight buffers in the order main creates them, named after their
\* address variables (ppInputAddr, larodInputAddr, ...).
BufferNames ==
    << "ppInput", "larodInput", "ppInputHD", "ppOutputHD",
       "larodOutput1", "larodOutput2", "larodOutput3", "larodOutput4" >>

BufferSet == { BufferNames[k] : k \in 1 .. Len(BufferNames) }

\* The fileSize main passes to createAndMapTmpFile for buffer number k.
CreateSize(k, yuyv, inW, inH, wHD, hHD) ==
    << yuyv,
       inW * inH * CHANNELS,
       (wHD * hHD * CHANNELS) \div 2,
       wHD * hHD * CHANNELS,
       TENSOR1SIZE, TENSOR2SIZE, TENSOR3SIZE, TENSOR4SIZE >>[k]

\* The length main passes to munmap for buffer number k at the end label.
UnmapSize(k, yuyv, inW, inH, wHD, hHD) ==
    << inW * inH * CHANNELS,
       inW * inH * CHANNELS,
       (wHD * hHD * CHANNELS) \div 2,
       wHD * hHD * CHANNELS,
       TENSOR1SIZE, TENSOR2SIZE, TENSOR3SIZE, TENSOR4SIZE >>[k]

\* mmap and munmap work on whole pages of 4096 bytes.
Pages(n) == (n + 4095) \div 4096

\* A buffer's variables before its creation: address MAP_FAILED, fd -1.
NoBuffer ==
    [ addr |-> "MAP_FAILED", size |-> 0, pages |-> 0, fd |-> "-1",
      creates |-> 0, unmaps |-> 0, closes |-> 0 ]

\* The system calls of createAndMapTmpFile in order; "none": no call fails.
TmpFileStages == << "mkstemp", "ftruncate", "unlink", "mmap" >>

StageIndex(stage) ==
    IF stage = "none" THEN Len(TmpFileStages) + 1
    ELSE CHOOSE k \in 1 .. Len(TmpFileStages) : TmpFileStages[k] = stage

\* createAndMapTmpFile(fileName, fileSize, &mappedAddr, &convFd) when the
\* call `stage` fails: what the call leaves behind.  The error label closes
\* the descriptor and does nothing else.
createAndMapTmpFile(fileSize, stage) ==
    LET passed(name) == StageIndex(name) < StageIndex(stage)
    IN [ ok |-> stage = "none",
         fd |-> IF ~passed("mkstemp") THEN "-1"
                ELSE IF stage = "none" THEN "open" ELSE "closed",
         linked |-> passed("mkstemp") /\ ~passed("unlink"),
         pages |-> IF passed("mmap") THEN Pages(fileSize) ELSE 0,
         size |-> IF passed("mmap") THEN fileSize ELSE 0,
         outputsWritten |-> stage = "none" ]

\* The larod handles main acquires, by the variable that holds them.
Models == { "model", "ppModel", "ppModelHD" }
JobRequests == << "ppReq", "ppReqHD", "infReq" >>
TensorArrays ==
    << "ppInputTensors", "ppOutputTensors", "ppInputTensorsHD",
       "ppOutputTensorsHD", "inputTensors", "outputTensors" >>

\* The larodSetTensorFd calls in order: tensor and the buffer whose fd it gets.
\* The tensors larodCreateModelOutputs returned: the ones a job writes.
OutputTensorNames ==
    { "ppOutputTensors[0]", "ppOutputTensorsHD[0]", "outputTensors[0]",
      "outputTensors[1]", "outputTensors[2]", "outputTensors[3]" }

\* TensorBindings with the detector's second output bound to the buffer of
\* its first output.
TensorBindings_SharedOutput ==
    << << "ppInputTensors[0]", "ppInput" >>,
       << "ppOutputTensors[0]", "larodInput" >>,
       << "ppInputTensorsHD[0]", "ppInputHD" >>,
       << "ppOutputTensorsHD[0]", "ppOutputHD" >>,
       << "inputTensors[0]", "larodInput" >>,
       << "outputTensors[0]", "larodOutput1" >>,
       << "outputTensors[1]", "larodOutput1" >>,
       << "outputTensors[2]", "larodOutput3" >>,
       << "outputTensors[3]", "larodOutput4" >> >>

\* The larodSetTensorFd calls of main in order: << tensor, buffer >>.
TensorBindings ==
    << << "ppInputTensors[0]", "ppInput" >>,
       << "ppOutputTensors[0]", "larodInput" >>,
       << "ppInputTensorsHD[0]", "ppInputHD" >>,
       << "ppOutputTensorsHD[0]", "ppOutputHD" >>,
       << "inputTensors[0]", "larodInput" >>,
       << "outputTensors[0]", "larodOutput1" >>,
       << "outputTensors[1]", "larodOutput2" >>,
       << "outputTensors[2]", "larodOutput3" >>,
       << "outputTensors[3]", "larodOutput4" >> >>

\* The parameter maps in the order main creates them.
ParamMaps == << "ppMap", "ppMapHD", "cropMap" >>

\* The two image providers main creates.
ImgProviders == { "sdImageProvider", "hdImageProvider" }

HandleSet ==
    Models \cup { JobRequests[k] : k \in 1 .. Len(JobRequests) }
           \cup { TensorArrays[k] : k \in 1 .. Len(TensorArrays) }
           \cup { ParamMaps[k] : k \in 1 .. Len(ParamMaps) }
           \cup ImgProviders

\* ------------------------------------------------------------------ state
VARIABLES
    args,             \* args_t filled by parseArgs: threshold, labelsFile
    mainPc,           \* main: "start", "loop" (g_main_loop_run), "end", "exited", "crashed"
    threshold,        \* int threshold
    labels,           \* char** labels, as offsets into labelFileData
    numLabels,        \* size_t numLabels
    labelFileData,    \* char* labelFileData
    countLoopEnd,     \* the bound of parseLabels' line-counting loop in its last call
    widthFrameHD,     \* unsigned int widthFrameHD
    heightFrameHD,    \* unsigned int heightFrameHD
    yuyvBufferSize,   \* size_t yuyvBufferSize
    pitches,          \* pitches[0] the platform reports for the two RGB outputs
    buffers,          \* per buffer: address, mapped size and pages, descriptor
    cropAddr,         \* void* cropAddr, which no statement assigns
    conn,             \* larodConnection* conn: "NULL" or "open"
    releaseCalls,     \* the larod release calls of the teardown, in call order
    handles,          \* per larod handle variable: "NULL", "live" or "destroyed"
    bound,            \* the larodSetTensorFd calls that succeeded
    tmpFiles,         \* temp files of this process that are linked in /tmp
    failedCalls,      \* what a failed createAndMapTmpFile call left behind
    setupFailure,     \* the setup step that failed, "none" if none did
    exitStatus,       \* the value main returned, "none" while it runs
    detectTimer,      \* the g_timeout source of detect_objects_timeout_callback
    pc,               \* position inside detect_objects, "idle" between ticks
    i,                \* loop variable of the crop loop
    ticks,            \* number of ticks started
    log,              \* the external calls of the current tick, with their outcome
    lastRet,          \* return value of the last finished tick
    sdHeld,           \* frames got from sdImageProvider and not returned
    hdHeld,           \* frames got from hdImageProvider and not returned
    ppInputBuf,       \* contents of ppInputAddr (frame it holds)
    larodInputBuf,    \* contents of larodInputAddr
    copied,           \* bytes the latest memcpy wrote into each preprocessor input
    ppInputBufHD,     \* contents of ppInputAddrHD
    ppOutputBufHD,    \* contents of ppOutputAddrHD
    outFiles,         \* the files behind larodOutput1Fd .. larodOutput4Fd
    fdPos,            \* file position of larodOutput1Fd .. larodOutput4Fd
    cropLog,          \* crops encoded and written in the current tick
    imageCalls,       \* while a tick runs: what each kept detection's
                      \* buffer_to_jpeg and jpeg_to_file calls were handed
    labelAccess,      \* indices used to index labels in the current tick
    object_overlays,  \* the records the last overlay loop stored in object_overlays
    object_overlays_length,  \* size_t object_overlays_length
    bboxDrawn         \* rectangles committed by draw_cv25_overlay

vars ==
    << args, mainPc, threshold, labels, numLabels, labelFileData, countLoopEnd,
       widthFrameHD, heightFrameHD, yuyvBufferSize, pitches, buffers, cropAddr,
       conn, releaseCalls, handles, bound, tmpFiles, failedCalls, setupFailure, exitStatus, detectTimer, pc, i, ticks, log, lastRet,
       sdHeld, hdHeld, ppInputBuf, larodInputBuf, ppInputBufHD, copied, ppOutputBufHD,
       outFiles, fdPos, cropLog, imageCalls, labelAccess, object_overlays,
       object_overlays_length, bboxDrawn >>

configVars == << args, threshold, labels, numLabels, labelFileData, countLoopEnd,
                 widthFrameHD, heightFrameHD, yuyvBufferSize, pitches,
                 buffers, cropAddr, conn, releaseCalls, handles, bound, tmpFiles,
                 failedCalls, setupFailure, exitStatus >>
bufferVars == << ppInputBuf, larodInputBuf, ppInputBufHD, copied, ppOutputBufHD,
                 outFiles, fdPos >>
frameVars == << sdHeld, hdHeld >>
resultVars == << cropLog, imageCalls, labelAccess, object_overlays,
                 object_overlays_length >>

\* Globals as the C initialisers leave them, and the command line.
InitGlobals ==
    /\ mainPc = "start"
    /\ threshold = 0
    /\ labels = <<>>
    /\ numLabels = 0
    /\ labelFileData = <<>>
    /\ countLoopEnd = 0
    /\ widthFrameHD = 0
    /\ heightFrameHD = 0
    /\ yuyvBufferSize = 0
    /\ pitches = [ppOutput |-> 0, ppOutputHD |-> 0]
    /\ buffers = [b \in BufferSet |-> NoBuffer]
    /\ cropAddr = [NoBuffer EXCEPT !.addr = "NULL"]
    /\ conn = "NULL"
    /\ releaseCalls = <<>>
    /\ handles = [h \in HandleSet |-> "NULL"]
    /\ bound = {}
    /\ tmpFiles = {}
    /\ failedCalls = <<>>
    /\ setupFailure = [step |-> "none", item |-> 0]
    /\ exitStatus = "none"
    /\ detectTimer = "none"
    /\ pc = "idle"
    /\ i = 0
    /\ ticks = 0
    /\ log = <<>>
    /\ lastRet = "none"
    /\ sdHeld = 0
    /\ hdHeld = 0
    /\ ppInputBuf = 0
    /\ larodInputBuf = 0
    /\ ppInputBufHD = 0
    /\ copied = [b \in {"ppInput", "ppInputHD"} |-> 0]
    /\ ppOutputBufHD = 0
    /\ outFiles = [k \in 1 .. 4 |-> <<>>]
    /\ fdPos = [k \in 1 .. 4 |-> 0]
    /\ cropLog = <<>>
    /\ imageCalls = <<>>
    /\ labelAccess = {}
    /\ object_overlays = <<>>
    /\ object_overlays_length = 0
    /\ bboxDrawn = <<>>

Init ==
    /\ args \in [threshold : ThresholdArgs, labelsFile : LabelsFileArgs,
                  width : InputSizeArgs, height : InputSizeArgs]
    /\ InitGlobals

\* --------------------------------------------------------------- startup
\* The value main stores in the global threshold.
ThresholdOfMain(a) == 0

\* The steps of main before g_main_loop_run whose failure jumps to end.
SetupSteps ==
    << "parseArgs", "chooseStreamResolution", "createImgProvider",
       "chooseStreamResolutionHD", "larodMaps", "openModel", "setupLarod",
       "loadPpModel", "loadPpModelHD", "createTensors", "tensorPitches",
       "expectedSize", "createAndMapTmpFile", "larodSetTensorFd",
       "larodCreateJobRequest", "parseLabels", "startFrameFetch",
       "startFrameFetchHD" >>

StepIndex(name) == CHOOSE k \in 1 .. Len(SetupSteps) : SetupSteps[k] = name

\* Step name was executed successfully when the setup failed at step failAt
\* (0: no step failed).
Passed(name, failAt) == failAt = 0 \/ StepIndex(name) < failAt

\* The number of calls a step makes, each with its own `goto end`.
StepItems(name) ==
    IF name = "larodMaps" THEN Len(ParamMaps)
    ELSE IF name = "createTensors" THEN Len(TensorArrays)
    ELSE IF name = "createAndMapTmpFile" THEN Len(BufferNames)
    ELSE IF name = "larodSetTensorFd" THEN Len(TensorBindings)
    ELSE IF name = "larodCreateJobRequest" THEN Len(JobRequests)
    ELSE 1

\* Call number k of step name succeeded when the setup failed in call number
\* item of step failAt.
Done(name, k, failAt, item) ==
    \/ Passed(name, failAt)
    \/ failAt = StepIndex(name) /\ k < item

\* AfterSetup that goes on into the main loop when a step from
\* larodSetTensorFd on fails.
AfterSetup_IgnoresLateFailure(failAt) ==
    IF failAt = 0 \/ failAt >= StepIndex("larodSetTensorFd") THEN "loop"
    ELSE IF failAt = StepIndex("parseArgs") THEN "earlyend"
    ELSE "end"

\* Where main goes after the setup: into g_main_loop_run, or to a label.
AfterSetup(failAt) ==
    IF failAt = 0 THEN "loop"
    ELSE IF failAt = StepIndex("parseArgs") THEN "earlyend"
    ELSE "end"

\* The state of buffer number k after the setup.
BufferAfterSetup(k, plat, inW, inH, failAt, item) ==
    IF Done("createAndMapTmpFile", k, failAt, item)
    THEN LET r == createAndMapTmpFile(
                      CreateSize(k, plat.ppInput, inW, inH, plat.hd[1], plat.hd[2]),
                      "none")
         IN [ NoBuffer EXCEPT !.addr = "mapped", !.size = r.size,
                              !.pages = r.pages, !.fd = r.fd, !.creates = 1 ]
    ELSE NoBuffer

\* startFrameFetch (of the image provider, not part of main): on a provider
\* it starts the fetching or fails; on NULL it fails or the process faults.
startFrameFetch(provider) ==
    IF provider = "NULL" THEN {"false", "fault"} ELSE {"true", "false"}

\* The handle variable h after the setup; hdOk says whether
\* createImgProvider gave the high-res provider or NULL.
HandleAfterSetup(h, failAt, item, hdOk) ==
    LET got ==
          \/ h = "sdImageProvider" /\ Passed("createImgProvider", failAt)
          \/ h = "hdImageProvider" /\ Passed("chooseStreamResolutionHD", failAt)
                                   /\ hdOk
          \/ h = "model" /\ Passed("setupLarod", failAt)
          \/ h = "ppModel" /\ Passed("loadPpModel", failAt)
          \/ h = "ppModelHD" /\ Passed("loadPpModelHD", failAt)
          \/ \E k \in 1 .. Len(ParamMaps) :
                h = ParamMaps[k] /\ Done("larodMaps", k, failAt, item)
          \/ \E k \in 1 .. Len(TensorArrays) :
                h = TensorArrays[k] /\ Done("createTensors", k, failAt, item)
          \/ \E k \in 1 .. Len(JobRequests) :
                h = JobRequests[k] /\ Done("larodCreateJobRequest", k, failAt, item)
    IN IF got THEN "live" ELSE "NULL"

\* main up to g_timeout_add(detect_objects_timeout_callback) and
\* g_main_loop_run; a failing call jumps to end (parseArgs: to earlyend, which
\* returns EXIT_FAILURE).  failAt, item and stage say which call fails;
\* the size check fails exactly when the reported pitch is not the expected
\* size.  A NULL from createImgProvider for the high-res provider is logged
\* and the setup goes on; startFrameFetch is then called with NULL.
MainSetup ==
    /\ mainPc = "start"
    /\ \E failAt \in 0 .. Len(SetupSteps), plat \in Platforms,
          item \in 1 .. Len(TensorBindings),
          stage \in { TmpFileStages[k] : k \in 1 .. Len(TmpFileStages) } \cup {"none"},
          hdOk \in BOOLEAN,
          fetchHD \in {"true", "false", "fault"} :
         LET mismatch == args.width * args.height * CHANNELS # plat.ppOutput
             inTmpFile == failAt = StepIndex("createAndMapTmpFile")
             inFetchHD == failAt = StepIndex("startFrameFetchHD")
             call == createAndMapTmpFile(
                         CreateSize(item, plat.ppInput, args.width, args.height,
                                    plat.hd[1], plat.hd[2]), stage)
         IN
         /\ item <= (IF failAt = 0 THEN 1 ELSE StepItems(SetupSteps[failAt]))
         /\ (stage # "none") <=> inTmpFile
         \* parseLabels is only called when labelsFile is not NULL
         /\ (failAt = StepIndex("parseLabels") => args.labelsFile.present)
         /\ (failAt = StepIndex("expectedSize") => mismatch)
         /\ (mismatch => failAt \in 1 .. StepIndex("expectedSize"))
         /\ (~hdOk => Passed("chooseStreamResolutionHD", failAt))
         /\ fetchHD \in startFrameFetch(IF hdOk THEN "live" ELSE "NULL")
         /\ (fetchHD = "true") <=> (failAt = 0)
         /\ (fetchHD = "fault") => inFetchHD
         /\ threshold' = IF Passed("parseArgs", failAt)
                         THEN ThresholdOfMain(args) ELSE threshold
         /\ IF Passed("chooseStreamResolutionHD", failAt)
            THEN widthFrameHD' = plat.hd[1] /\ heightFrameHD' = plat.hd[2]
            ELSE UNCHANGED << widthFrameHD, heightFrameHD >>
         /\ IF Passed("tensorPitches", failAt)
            THEN /\ yuyvBufferSize' = plat.ppInput
                 /\ pitches' = [ppOutput |-> plat.ppOutput,
                                ppOutputHD |-> plat.ppOutputHD]
            ELSE UNCHANGED << yuyvBufferSize, pitches >>
         /\ buffers' = [b \in BufferSet |->
                LET k == CHOOSE n \in 1 .. Len(BufferNames) : BufferNames[n] = b
                IN BufferAfterSetup(k, plat, args.width, args.height, failAt, item)]
         /\ outFiles' = [k \in 1 .. 4 |->
                IF Done("createAndMapTmpFile", 4 + k, failAt, item)
                THEN <<ZeroChunk>> ELSE <<>>]
         /\ failedCalls' = IF inTmpFile
                           THEN << [buffer |-> BufferNames[item], stage |-> stage,
                                    result |-> call] >>
                           ELSE <<>>
         /\ tmpFiles' = IF inTmpFile /\ call.linked THEN {BufferNames[item]} ELSE {}
         /\ handles' = [h \in HandleSet |-> HandleAfterSetup(h, failAt, item, hdOk)]
         /\ conn' = IF Passed("setupLarod", failAt) THEN "open" ELSE "NULL"
         /\ bound' = { TensorBindings[k] : k \in
                         { n \in 1 .. Len(TensorBindings) :
                             Done("larodSetTensorFd", n, failAt, item) } }
         /\ IF Passed("parseLabels", failAt) /\ args.labelsFile.present
            THEN LET r == parseLabels(args.labelsFile.data)
                 IN /\ labels' = r.labels
                    /\ numLabels' = r.numLabels
                    /\ labelFileData' = r.labelFileData
                    /\ countLoopEnd' = CountLoopEnd(Len(args.labelsFile.data))
            ELSE UNCHANGED << labels, numLabels, labelFileData, countLoopEnd >>
         /\ setupFailure' = IF failAt = 0 THEN setupFailure
                            ELSE [step |-> SetupSteps[failAt], item |-> item]
         /\ detectTimer' = IF AfterSetup(failAt) = "loop" THEN "scheduled" ELSE "none"
         /\ mainPc' = IF fetchHD = "fault" THEN "crashed"
                      ELSE IF AfterSetup(failAt) = "earlyend" THEN "exited"
                      ELSE AfterSetup(failAt)
         /\ exitStatus' = IF AfterSetup(failAt) = "earlyend" THEN "EXIT_FAILURE"
                          ELSE exitStatus
    /\ UNCHANGED << args, cropAddr, releaseCalls, pc, i, ticks, log, lastRet,
                    frameVars, ppInputBuf, larodInputBuf, ppInputBufHD, copied, ppOutputBufHD,
                    fdPos, resultVars, bboxDrawn >>

\* Unmapped without the guard: munmap is called for a buffer that was never
\* mapped, too.
Unmapped_NoGuard(buf, length) ==
    [ buf EXCEPT !.addr = "unmapped",
                 !.pages = IF Pages(length) >= buf.pages THEN 0
                           ELSE buf.pages - Pages(length),
                 !.unmaps = buf.unmaps + 1 ]

\* munmap(addr, length) on a buffer, guarded by addr != MAP_FAILED: the
\* leading pages of the mapping that the length covers are unmapped.
Unmapped(buf, length) ==
    IF buf.addr = "MAP_FAILED" THEN buf
    ELSE [ buf EXCEPT !.addr = "unmapped",
                      !.pages = IF Pages(length) >= buf.pages THEN 0
                                ELSE buf.pages - Pages(length),
                      !.unmaps = buf.unmaps + 1 ]

\* close(fd) on a buffer's descriptor, guarded by fd >= 0.
Closed(buf) ==
    IF buf.fd = "-1" THEN buf
    ELSE [ buf EXCEPT !.fd = "closed", !.closes = buf.closes + 1 ]

\* The larod release calls main makes from the end label on, in call order,
\* when the connection variable holds c at the label: each with the handle
\* it releases and the connection it is given ("none": the call takes no
\* connection). larodDisconnect is called on an open connection and sets the
\* variable to NULL.
ReleaseCalls(c) ==
    << [call |-> "larodDestroyMap", handle |-> "ppMap", conn |-> "none"],
       [call |-> "larodDestroyMap", handle |-> "cropMap", conn |-> "none"],
       [call |-> "larodDestroyMap", handle |-> "ppMapHD", conn |-> "none"] >>
    \o << [call |-> "larodDestroyModel", handle |-> "ppModel", conn |-> "none"],
          [call |-> "larodDestroyModel", handle |-> "ppModelHD", conn |-> "none"],
          [call |-> "larodDestroyModel", handle |-> "model", conn |-> "none"] >>
    \o (IF c # "NULL"
        THEN << [call |-> "larodDisconnect", handle |-> "conn", conn |-> c] >>
        ELSE <<>>)
    \o [k \in 1 .. Len(JobRequests) |->
        [call |-> "larodDestroyJobRequest", handle |-> JobRequests[k],
         conn |-> "none"]]
    \o << [call |-> "larodDestroyTensors", handle |-> "inputTensors",
           conn |-> "NULL"],
          [call |-> "larodDestroyTensors", handle |-> "outputTensors",
           conn |-> "NULL"] >>

\* main from the end label to the return: the providers, maps, models and job requests are
\* destroyed, every buffer is unmapped and its descriptor closed, the detector's
\* tensor arrays are destroyed through the connection, which larodDisconnect
\* has already set to NULL (the call frees them or fails); ret is false.
\* cropAddr is NULL, which passes the test against MAP_FAILED.
MainTeardown ==
    /\ mainPc = "end"
    /\ mainPc' = "exited"
    /\ buffers' = [b \in BufferSet |->
           LET k == CHOOSE n \in 1 .. Len(BufferNames) : BufferNames[n] = b
           IN Closed(Unmapped(buffers[b],
                  UnmapSize(k, yuyvBufferSize, args.width, args.height,
                            widthFrameHD, heightFrameHD)))]
    /\ cropAddr' = Unmapped(cropAddr, widthFrameHD * heightFrameHD * CHANNELS)
    /\ releaseCalls' = ReleaseCalls(conn)
    /\ conn' = "NULL"
    /\ \E freed \in BOOLEAN :
         handles' = [h \in HandleSet |->
            IF handles[h] # "live" THEN handles[h]
            ELSE IF \/ h \in Models
                    \/ h \in { JobRequests[k] : k \in 1 .. Len(JobRequests) }
                    \/ h \in { ParamMaps[k] : k \in 1 .. Len(ParamMaps) }
                    \/ h \in ImgProviders
                 THEN "destroyed"
            ELSE IF h \in {"inputTensors", "outputTensors"} /\ freed
                 THEN "destroyed"
            ELSE "live"]
    /\ exitStatus' = "EXIT_FAILURE"
    /\ UNCHANGED << args, threshold, labels, numLabels, labelFileData, countLoopEnd,
                    widthFrameHD, heightFrameHD, yuyvBufferSize, pitches, bound,
                    tmpFiles, failedCalls, setupFailure, detectTimer, pc, i,
                    ticks, log, lastRet, frameVars, ppInputBuf, larodInputBuf,
                    ppInputBufHD, copied, ppOutputBufHD, outFiles, fdPos, resultVars,
                    bboxDrawn >>

\* ------------------------------------------------------ detect_objects
\* memcpy that copies a whole RGB frame, three bytes per pixel, into the
\* high-res input.
CopySize_FullFrameHD(k, yuyv, wHD, hHD) ==
    IF k = 1 THEN yuyv ELSE wHD * hHD * CHANNELS

\* The length detect_objects passes to memcpy for buffer number k: the
\* low-res input (1) and the high-res input (3).
CopySize(k, yuyv, wHD, hHD) ==
    IF k = 1 THEN yuyv ELSE (wHD * hHD * CHANNELS) \div 2

\* A tick is in progress between the timer dispatch and the return.
InTick == mainPc = "loop" /\ pc # "idle"

\* detect_objects_timeout_callback returns what detect_objects returns; the
\* main loop keeps a timeout source whose callback returned TRUE and removes
\* one whose callback returned FALSE.
TimerAfter(retval) == IF retval THEN "scheduled" ELSE "removed"

\* `return retval;` in detect_objects.
Return(retval) ==
    /\ pc' = "idle"
    /\ lastRet' = IF retval THEN "TRUE" ELSE "FALSE"
    /\ detectTimer' = TimerAfter(retval)

Logged(op, ok) == log' = Append(log, [op |-> op, ok |-> ok])

\* The main loop dispatches the detection timer; no callback is running.
TimerFires ==
    /\ mainPc = "loop"
    /\ detectTimer = "scheduled"
    /\ pc = "idle"
    /\ ticks < MaxTicks
    /\ ticks' = ticks + 1
    /\ pc' = "getSD"
    /\ log' = <<>>
    /\ cropLog' = <<>>
    /\ imageCalls' = <<>>
    /\ labelAccess' = {}
    /\ i' = 0
    /\ UNCHANGED << configVars, mainPc, detectTimer, lastRet, frameVars,
                    bufferVars, object_overlays,
                    object_overlays_length, bboxDrawn >>

\* buf = getLastFrameBlocking(sdImageProvider); if (!buf) return FALSE;
GetFrameSD ==
    /\ InTick /\ pc = "getSD"
    /\ \E ok \in BOOLEAN :
         /\ Logged("getLastFrameBlocking", ok)
         /\ IF ok
            THEN /\ sdHeld' = sdHeld + 1
                 /\ pc' = "getHD"
                 /\ UNCHANGED << lastRet, detectTimer >>
            ELSE /\ Return(FALSE)
                 /\ UNCHANGED sdHeld
    /\ UNCHANGED << configVars, mainPc, i, ticks, hdHeld, bufferVars,
                    resultVars, bboxDrawn >>

\* GetFrameHD without the null check: the tick goes on without a frame.
GetFrameHD_IgnoresNull ==
    /\ InTick /\ pc = "getHD"
    /\ \E ok \in BOOLEAN :
         /\ Logged("getLastFrameBlockingHD", ok)
         /\ hdHeld' = IF ok THEN hdHeld + 1 ELSE hdHeld
         /\ pc' = "pp"
         /\ UNCHANGED << lastRet, detectTimer >>
    /\ UNCHANGED << configVars, mainPc, i, ticks, sdHeld, bufferVars,
                    resultVars, bboxDrawn >>

\* buf_hq = getLastFrameBlocking(hdImageProvider); if (!buf_hq) return FALSE;
GetFrameHD ==
    /\ InTick /\ pc = "getHD"
    /\ \E ok \in BOOLEAN :
         /\ Logged("getLastFrameBlockingHD", ok)
         /\ IF ok
            THEN /\ hdHeld' = hdHeld + 1
                 /\ pc' = "pp"
                 /\ UNCHANGED << lastRet, detectTimer >>
            ELSE /\ Return(FALSE)
                 /\ UNCHANGED hdHeld
    /\ UNCHANGED << configVars, mainPc, i, ticks, sdHeld, bufferVars,
                    resultVars, bboxDrawn >>

\* RunPpJob with the job run before the frame is copied into its input.
RunPpJob_JobBeforeCopy ==
    /\ InTick /\ pc = "pp"
    /\ ppInputBuf' = ticks
    /\ copied' = [copied EXCEPT !["ppInput"] =
                     CopySize(1, yuyvBufferSize, widthFrameHD, heightFrameHD)]
    /\ \E ok \in BOOLEAN :
         /\ log' = log \o << [op |-> "larodRunJob_ppReq", ok |-> ok],
                             [op |-> "memcpy", ok |-> TRUE] >>
         /\ IF ok
            THEN /\ larodInputBuf' = ppInputBuf
                 /\ pc' = "ppHD"
                 /\ UNCHANGED << lastRet, detectTimer >>
            ELSE /\ Return(FALSE)
                 /\ UNCHANGED larodInputBuf
    /\ UNCHANGED << configVars, mainPc, i, ticks, frameVars, ppInputBufHD,
                    ppOutputBufHD, outFiles, fdPos, resultVars, bboxDrawn >>

\* memcpy(ppInputAddr, nv12Data, yuyvBufferSize); larodRunJob(conn, ppReq):
\* the frame of this tick is copied into the preprocessor input, and the
\* job writes its conversion into the detector input buffer.
RunPpJob ==
    /\ InTick /\ pc = "pp"
    /\ ppInputBuf' = ticks
    /\ copied' = [copied EXCEPT !["ppInput"] =
                     CopySize(1, yuyvBufferSize, widthFrameHD, heightFrameHD)]
    /\ \E ok \in BOOLEAN :
         /\ log' = log \o << [op |-> "memcpy", ok |-> TRUE],
                             [op |-> "larodRunJob_ppReq", ok |-> ok] >>
         /\ IF ok
            THEN /\ larodInputBuf' = ppInputBuf'
                 /\ pc' = "ppHD"
                 /\ UNCHANGED << lastRet, detectTimer >>
            ELSE /\ Return(FALSE)
                 /\ UNCHANGED larodInputBuf
    /\ UNCHANGED << configVars, mainPc, i, ticks, frameVars, ppInputBufHD,
                    ppOutputBufHD, outFiles, fdPos, resultVars, bboxDrawn >>

\* RunPpJobHD that binds the high-res output tensor to the detector input
\* buffer before it runs the job.
RunPpJobHD_Rebinds ==
    /\ InTick /\ pc = "ppHD"
    /\ ppInputBufHD' = ticks
    /\ copied' = [copied EXCEPT !["ppInputHD"] =
                     CopySize(3, yuyvBufferSize, widthFrameHD, heightFrameHD)]
    /\ bound' = bound \cup { << "ppOutputTensorsHD[0]", "larodInput" >> }
    /\ \E ok \in BOOLEAN :
         /\ log' = log \o << [op |-> "memcpyHD", ok |-> TRUE],
                             [op |-> "larodRunJob_ppReqHD", ok |-> ok] >>
         /\ IF ok
            THEN /\ ppOutputBufHD' = ppInputBufHD'
                 /\ pc' = "rewind1"
                 /\ UNCHANGED << lastRet, detectTimer >>
            ELSE /\ Return(FALSE)
                 /\ UNCHANGED ppOutputBufHD
    /\ UNCHANGED << args, threshold, labels, numLabels, labelFileData, countLoopEnd,
                    widthFrameHD, heightFrameHD, yuyvBufferSize, pitches,
                    buffers, cropAddr, conn, releaseCalls, handles, tmpFiles, failedCalls,
                    setupFailure, exitStatus, mainPc, i, ticks, frameVars, ppInputBuf,
                    larodInputBuf, outFiles, fdPos, resultVars, bboxDrawn >>

\* memcpy(ppInputAddrHD, nv12Data_hq, ...); larodRunJob(conn, ppReqHD)
RunPpJobHD ==
    /\ InTick /\ pc = "ppHD"
    /\ ppInputBufHD' = ticks
    /\ copied' = [copied EXCEPT !["ppInputHD"] =
                     CopySize(3, yuyvBufferSize, widthFrameHD, heightFrameHD)]
    /\ \E ok \in BOOLEAN :
         /\ log' = log \o << [op |-> "memcpyHD", ok |-> TRUE],
                             [op |-> "larodRunJob_ppReqHD", ok |-> ok] >>
         /\ IF ok
            THEN /\ ppOutputBufHD' = ppInputBufHD'
                 /\ pc' = "rewind1"
                 /\ UNCHANGED << lastRet, detectTimer >>
            ELSE /\ Return(FALSE)
                 /\ UNCHANGED ppOutputBufHD
    /\ UNCHANGED << configVars, mainPc, i, ticks, frameVars, ppInputBuf,
                    larodInputBuf, outFiles, fdPos, resultVars, bboxDrawn >>

RewindPc == << "rewind1", "rewind2", "rewind3", "rewind4" >>
RewindOp == << "lseek1", "lseek2", "lseek3", "lseek4" >>

\* lseek that leaves the file position where it is.
lseek_NoRewind(pos, k) == pos

\* lseek(fd, 0, SEEK_SET) on output descriptor k, when it succeeds.
lseek(pos, k) == [pos EXCEPT ![k] = 0]

\* if (lseek(larodOutput<k>Fd, 0, SEEK_SET) == -1) return FALSE;
Rewind(k) ==
    /\ InTick /\ pc = RewindPc[k]
    /\ \E ok \in BOOLEAN :
         /\ Logged(RewindOp[k], ok)
         /\ IF ok
            THEN /\ fdPos' = lseek(fdPos, k)
                 /\ pc' = IF k < 4 THEN RewindPc[k + 1] ELSE "inf"
                 /\ UNCHANGED << lastRet, detectTimer >>
            ELSE /\ Return(FALSE)
                 /\ UNCHANGED fdPos
    /\ UNCHANGED << configVars, mainPc, i, ticks, frameVars, ppInputBuf,
                    larodInputBuf, ppInputBufHD, copied, ppOutputBufHD, outFiles,
                    resultVars, bboxDrawn >>

\* RunInference without the return on failure: the tick goes on to parse the
\* output buffers.
RunInference_IgnoresFailure ==
    /\ InTick /\ pc = "inf"
    /\ \E ok \in BOOLEAN :
         /\ Logged("larodRunJob_infReq", ok)
         /\ pc' = "count"
         /\ UNCHANGED << lastRet, detectTimer >>
         /\ IF ok
            THEN \E out \in OutputsFor(widthFrameHD, heightFrameHD) :
                   /\ outFiles' = [k \in 1 .. 4 |->
                          WriteAt(outFiles[k], fdPos[k], TensorSize(k),
                                  [src |-> larodInputBuf,
                                   data |-> TensorData(out.dets, out.n)[k]])]
                   /\ fdPos' = [k \in 1 .. 4 |-> fdPos[k] + TensorSize(k)]
            ELSE UNCHANGED << outFiles, fdPos >>
    /\ UNCHANGED << configVars, mainPc, i, ticks, frameVars, ppInputBuf,
                    larodInputBuf, ppInputBufHD, copied, ppOutputBufHD,
                    resultVars, bboxDrawn >>

\* larodRunJob(conn, infReq): the detector reads its input buffer and writes
\* each output tensor to its descriptor at the descriptor's file position,
\* which advances by the tensor size.
RunInference ==
    /\ InTick /\ pc = "inf"
    /\ \E ok \in BOOLEAN :
         /\ Logged("larodRunJob_infReq", ok)
         /\ IF ok
            THEN \E out \in OutputsFor(widthFrameHD, heightFrameHD) :
                   /\ outFiles' = [k \in 1 .. 4 |->
                          WriteAt(outFiles[k], fdPos[k], TensorSize(k),
                                  [src |-> larodInputBuf,
                                   data |-> TensorData(out.dets, out.n)[k]])]
                   /\ fdPos' = [k \in 1 .. 4 |-> fdPos[k] + TensorSize(k)]
                   /\ pc' = "count"
                   /\ UNCHANGED << lastRet, detectTimer >>
            ELSE /\ Return(FALSE)
                 /\ UNCHANGED << outFiles, fdPos >>
    /\ UNCHANGED << configVars, mainPc, i, ticks, frameVars, ppInputBuf,
                    larodInputBuf, ppInputBufHD, copied, ppOutputBufHD,
                    resultVars, bboxDrawn >>

\* The mapped output buffers: the first tensor-sized chunk of each file
\* (larodOutput<k>Addr maps TENSOR<k>SIZE bytes at offset 0).
locations == outFiles[1][1]
classes == outFiles[2][1]
scores == outFiles[3][1]
numberOfDetections == outFiles[4][1]

\* (int)numberOfDetections[0]
DetectionCount == ReadF(numberOfDetections, 0)

\* The box of detection k as read from locations[4 * k .. 4 * k + 3].
BoxOf(k) ==
    [ top |-> ReadF(locations, 4 * k),
      left |-> ReadF(locations, 4 * k + 1),
      bottom |-> ReadF(locations, 4 * k + 2),
      right |-> ReadF(locations, 4 * k + 3) ]

\* (w - h) / 2 in unsigned int arithmetic: for h > w the difference wraps
\* to 2^32 - (h - w), and half of it is 2^31 - ceil((h - w) / 2).
UnsignedHalfDiff(w, h) ==
    IF w >= h THEN (w - h) \div 2
    ELSE (2147483647 - ((h - w + 1) \div 2)) + 1

\* CropRect with the box scaled by the frame width and height.
CropRect_ScaleByWidth(box) ==
    [ x |-> (box.left * widthFrameHD) \div 100,
      y |-> (box.top * heightFrameHD) \div 100,
      w |-> ((box.right - box.left) * widthFrameHD) \div 100,
      h |-> ((box.bottom - box.top) * heightFrameHD) \div 100 ]

\* crop_x, crop_y, crop_w, crop_h of detect_objects, for boxes whose
\* products are not negative.
CropRect(box) ==
    LET croppedWidthHD == heightFrameHD
    IN [ x |-> (box.left * croppedWidthHD) \div 100
               + UnsignedHalfDiff(widthFrameHD, heightFrameHD),
         y |-> (box.top * heightFrameHD) \div 100,
         w |-> ((box.right - box.left) * croppedWidthHD) \div 100,
         h |-> ((box.bottom - box.top) * heightFrameHD) \div 100 ]

\* The score test with > in place of >=.
Kept_Strict(score) == score > threshold

\* if (scores[i] >= threshold / 100.0)
Kept(score) == score >= threshold

\* snprintf(file_name, 32, "/tmp/detection_%i.jpg", i)
FileName(k) == << "/tmp/detection_", k, ".jpg" >>

\* What a label string read through labels[idx] can be.  An index inside
\* the table gives the label; any other index (and any index when labels is
\* NULL) is an out-of-bounds read: the process faults, or the read yields
\* bytes that are not a label of the table.
Garbage == << 63 >>
LabelRead(idx) ==
    IF 0 <= idx /\ idx < numLabels
    THEN { [fault |-> FALSE, str |-> CStr(labelFileData, At(labels, idx))] }
    ELSE { [fault |-> TRUE, str |-> <<>>], [fault |-> FALSE, str |-> Garbage] }

\* crop_interleaved (of the image utilities, not part of detect_objects):
\* the crop step gives a buffer, or no buffer when it fails.
crop_interleaved == { "buffer", "NULL" }

\* buffer_to_jpeg (of the image utilities): the encoder gives an encoded
\* image or fails and leaves jpeg_buffer NULL; what it does with a NULL
\* input is not specified: it fails, or the process faults.
buffer_to_jpeg(crop_buffer) ==
    IF crop_buffer = "NULL" THEN { "NULL", "fault" } ELSE { "jpeg", "NULL" }

\* if ((int)numberOfDetections[0] == 0) return TRUE;
CheckCount ==
    /\ InTick /\ pc = "count"
    /\ IF DetectionCount = 0
       THEN Return(TRUE)
       ELSE /\ pc' = "crop"
            /\ UNCHANGED << lastRet, detectTimer >>
    /\ i' = 0
    /\ UNCHANGED << configVars, mainPc, ticks, log, frameVars, bufferVars,
                    resultVars, bboxDrawn >>

\* One iteration of `for (int i = 0; i < numberOfDetections[0]; i++)`: a
\* detection that passes the score test is logged with its label, cropped
\* from the HD buffer, encoded and written to its file.  No result of the
\* three calls is tested: the encoder gets whatever crop_interleaved returned
\* and jpeg_to_file whatever the encoder left in jpeg_buffer.  At most one
\* of these calls fails in a tick, only in the first MaxFailTick ticks and
\* only for one of the first MaxDet detections.
CropIteration ==
    /\ InTick /\ pc = "crop"
    /\ i < DetectionCount
    /\ IF Kept(ReadF(scores, i))
       THEN /\ labelAccess' = labelAccess \cup { ReadF(classes, i) }
            /\ \E r \in LabelRead(ReadF(classes, i)),
                  crop_buffer \in crop_interleaved :
                 \E jpeg_buffer \in buffer_to_jpeg(crop_buffer) :
                   /\ (crop_buffer = "NULL" \/ jpeg_buffer # "jpeg")
                      => /\ ticks <= MaxFailTick
                         /\ i < MaxDet
                         /\ \A j \in 1 .. Len(imageCalls) :
                              /\ imageCalls[j].crop = "buffer"
                              /\ imageCalls[j].jpeg = "jpeg"
                   /\ IF r.fault \/ jpeg_buffer = "fault"
                      THEN /\ mainPc' = "crashed"
                           /\ UNCHANGED << cropLog, imageCalls, i >>
                      ELSE /\ cropLog' = Append(cropLog,
                                 [ index |-> i,
                                   rect |-> CropRect(BoxOf(i)),
                                   src |-> ppOutputBufHD,
                                   file |-> FileName(i) ])
                           /\ imageCalls' = Append(imageCalls,
                                 [ index |-> i, crop |-> crop_buffer,
                                   jpeg |-> jpeg_buffer ])
                           /\ i' = i + 1
                           /\ UNCHANGED mainPc
       ELSE /\ i' = i + 1
            /\ UNCHANGED << cropLog, imageCalls, labelAccess, mainPc >>
    /\ UNCHANGED << configVars, detectTimer, pc, ticks, log, lastRet,
                    frameVars, bufferVars, object_overlays,
                    object_overlays_length, bboxDrawn >>

\* The crop loop ends.
CropLoopExit ==
    /\ InTick /\ pc = "crop"
    /\ ~(i < DetectionCount)
    /\ pc' = "overlay"
    /\ UNCHANGED << configVars, mainPc, detectTimer, i, ticks, log, lastRet,
                    frameVars, bufferVars, resultVars, bboxDrawn >>

\* object_overlays_length = numberOfDetections[0] < OBJECT_OVERLAYS_MAX_LENGTH
\*                              ? numberOfDetections[0] : OBJECT_OVERLAYS_MAX_LENGTH
OverlayLength(count) ==
    IF count < OBJECT_OVERLAYS_MAX_LENGTH THEN count
    ELSE OBJECT_OVERLAYS_MAX_LENGTH

\* static gint stream_width, stream_height: only render_overlay_cb assigns
\* them, and that callback is not part of this build.
stream_width == 1280
stream_height == 720

\* get_coordinates(&top, &left, &bottom, &right, frame_width, frame_height,
\* top, left, bottom, right): the rectangle is computed from widthFrameHD and
\* heightFrameHD; frame_width and frame_height are only written to the log.
get_coordinates(frame_width, frame_height, box) ==
    LET croppedWidthHD == heightFrameHD
        crop_x == (box.left * croppedWidthHD) \div 100
                  + UnsignedHalfDiff(widthFrameHD, heightFrameHD)
        crop_y == (box.top * heightFrameHD) \div 100
        crop_w == ((box.right - box.left) * croppedWidthHD) \div 100
        crop_h == ((box.bottom - box.top) * heightFrameHD) \div 100
    IN [ top |-> crop_y, left |-> crop_x,
         bottom |-> crop_y + crop_h, right |-> crop_x + crop_w ]

\* The record the overlay loop stores for detection k with label string str.
OverlayRecord(k, str) ==
    LET r == get_coordinates(stream_width, stream_height, BoxOf(k))
    IN [ top |-> r.top, left |-> r.left, bottom |-> r.bottom, right |-> r.right,
         class |-> str, score |-> ReadF(scores, k) ]

\* The conversion of a float to size_t: a value that is not negative converts
\* to itself; the conversion of a negative value is undefined, and the builds
\* give 0 (saturating conversion) or a value near SIZE_MAX (wrapping).
ToSizeT(f) == IF f >= 0 THEN {f} ELSE {0, 2147483647}

\* The assignment of object_overlays_length, the overlay loop, returnFrame on
\* both providers and `return TRUE`.  A length above the capacity makes the
\* loop store past the end of object_overlays.
UpdateOverlays ==
    /\ InTick /\ pc = "overlay"
    /\ \E n \in ToSizeT(OverlayLength(DetectionCount)) :
          /\ object_overlays_length' = n
          /\ IF n > OBJECT_OVERLAYS_MAX_LENGTH
             THEN /\ mainPc' = "crashed"
                  /\ UNCHANGED << object_overlays, frameVars, pc, lastRet,
                                  detectTimer, log, labelAccess, imageCalls >>
             ELSE /\ labelAccess' = labelAccess \cup { ReadF(classes, k) : k \in 0 .. n - 1 }
                  /\ \E rd \in [0 .. n - 1 -> UNION { LabelRead(ReadF(classes, k)) : k \in 0 .. n - 1 }] :
                       /\ \A k \in 0 .. n - 1 : rd[k] \in LabelRead(ReadF(classes, k))
                       /\ IF \E k \in 0 .. n - 1 : rd[k].fault
                          THEN /\ mainPc' = "crashed"
                               /\ UNCHANGED << object_overlays, frameVars, pc, lastRet,
                                               detectTimer, log, imageCalls >>
                          ELSE /\ object_overlays' =
                                    [k \in 1 .. n |-> OverlayRecord(k - 1, rd[k - 1].str)]
                               /\ sdHeld' = sdHeld - 1
                               /\ hdHeld' = hdHeld - 1
                               /\ log' = log \o << [op |-> "returnFrame", ok |-> TRUE],
                                                   [op |-> "returnFrameHD", ok |-> TRUE] >>
                               /\ imageCalls' = <<>>
                               /\ Return(TRUE)
                               /\ UNCHANGED mainPc
    /\ UNCHANGED << configVars, i, ticks, bufferVars, cropLog, bboxDrawn >>

\* draw_cv25_overlay dispatched while detect_objects is still running.
draw_cv25_overlay_AnyTime ==
    /\ mainPc = "loop"
    /\ bboxDrawn' =
         [k \in 1 .. Len(object_overlays) |->
            [ left |-> << object_overlays[k].left, stream_width >>,
              top |-> << object_overlays[k].top, stream_height >>,
              right |-> << object_overlays[k].right, stream_width >>,
              bottom |-> << object_overlays[k].bottom, stream_height >>,
              class |-> object_overlays[k].class ]]
    /\ UNCHANGED << configVars, mainPc, detectTimer, pc, i, ticks, log,
                    lastRet, frameVars, bufferVars, resultVars >>

\* draw_cv25_overlay_timeout_callback: the rectangles of the overlay list,
\* normalised by the stream size, are committed to the bounding-box view.
\* The main loop dispatches it between callbacks, never inside one.
draw_cv25_overlay ==
    /\ mainPc = "loop" /\ pc = "idle"
    /\ bboxDrawn' =
         [k \in 1 .. Len(object_overlays) |->
            [ left |-> << object_overlays[k].left, stream_width >>,
              top |-> << object_overlays[k].top, stream_height >>,
              right |-> << object_overlays[k].right, stream_width >>,
              bottom |-> << object_overlays[k].bottom, stream_height >>,
              class |-> object_overlays[k].class ]]
    /\ UNCHANGED << configVars, mainPc, detectTimer, pc, i, ticks, log,
                    lastRet, frameVars, bufferVars, resultVars >>

\* ---------------------------------------------------------- specification
Next ==
    \/ MainSetup
    \/ MainTeardown
    \/ TimerFires
    \/ GetFrameSD
    \/ GetFrameHD
    \/ RunPpJob
    \/ RunPpJobHD
    \/ \E k \in 1 .. 4 : Rewind(k)
    \/ RunInference
    \/ CheckCount
    \/ CropIteration
    \/ CropLoopExit
    \/ UpdateOverlays
    \/ draw_cv25_overlay

Spec == Init /\ [][Next]_vars

\* The command line with the default threshold and no labels file.
InitDefaultArgs ==
    /\ args \in [threshold : {0}, labelsFile : {[present |-> FALSE, data |-> <<>>]},
                  width : InputSizeArgs, height : InputSizeArgs]
    /\ InitGlobals

\* The main thread keeps running: main goes on to its next statement, and
\* g_main_loop_run dispatches a timeout source that is due.
FairSpec == InitDefaultArgs /\ [][Next]_vars /\ WF_vars(Next)

\* ------------------------------------------------- parseLabels on its own
\* The command line names a labels file with lines around the cap.
InitLabels ==
    /\ args \in [threshold : {0},
                  labelsFile : LongLabelsFileArgs \cup {EmptyLabelsFile},
                  width : InputSizeArgs, height : InputSizeArgs]
    /\ InitGlobals

\* The call parseLabels(&labels, &labelFileData, labelsFile, &numLabels) of
\* main.  mainPc becomes "parsed" when it has returned true.  A terminator
\* stored past the end of the malloc'ed buffer of file size + 1 bytes is
\* undefined behaviour: the buffer's own bytes are as without it, and the
\* process goes on or the corrupted heap ends it.  A counting loop whose
\* bound lies past the buffer reads the memory behind it, undefined behaviour
\* as well: the read faults, or the loop ends with the newlines it met there
\* added to the count, and the label array has slots no statement assigns.
ParseLabelsCall ==
    /\ mainPc = "start"
    /\ args.labelsFile.present
    /\ LET data == args.labelsFile.data
           r == parseLabels(data)
           writes == CapWrites(Terminated(data), r.labels, 1)
           overread == CountLoopEnd(Len(data)) > Len(data) + 1
       IN /\ labels' = r.labels
          /\ numLabels' \in (IF overread THEN {r.numLabels, r.numLabels + 1}
                              ELSE {r.numLabels})
          /\ labelFileData' = r.labelFileData
          /\ countLoopEnd' = CountLoopEnd(Len(data))
          /\ IF overread \/ \E w \in writes : w.pos > Len(data)
             THEN mainPc' \in {"parsed", "crashed"}
             ELSE mainPc' = "parsed"
    /\ UNCHANGED << args, threshold, widthFrameHD, heightFrameHD,
                    yuyvBufferSize, pitches, buffers, cropAddr, conn,
                    releaseCalls, handles, bound, tmpFiles,
                    failedCalls, setupFailure, exitStatus, detectTimer, pc, i,
                    ticks, log, lastRet, frameVars, bufferVars, resultVars,
                    bboxDrawn >>

\* strcpy(overlay->class, labels[k]) of the overlay loop, for a detection of
\* class k and no other detector data: the record holds the whole label,
\* whatever its length, since strcpy copies up to the terminator.
CopyLabelToOverlay ==
    /\ mainPc = "parsed"
    /\ object_overlays = <<>>
    /\ \E k \in 0 .. numLabels - 1 :
         /\ k < Len(labels)
         /\ object_overlays' =
           << [ top |-> 0, left |-> 0, bottom |-> 0, right |-> 0,
                class |-> CStr(labelFileData, At(labels, k)), score |-> 0 ] >>
    /\ UNCHANGED << configVars, mainPc, detectTimer, pc, i, ticks, log, lastRet,
                    frameVars, bufferVars, cropLog, imageCalls, labelAccess,
                    object_overlays_length, bboxDrawn >>

NextLabels ==
    \/ ParseLabelsCall
    \/ CopyLabelToOverlay

SpecLabels == InitLabels /\ [][NextLabels]_vars

\* ----------------------------------------------------------------- claims
\* The external calls of a tick in the order detect_objects makes them.
CallOrder ==
    << "getLastFrameBlocking", "getLastFrameBlockingHD",
       "memcpy", "larodRunJob_ppReq", "memcpyHD", "larodRunJob_ppReqHD",
       "lseek1", "lseek2", "lseek3", "lseek4", "larodRunJob_infReq",
       "returnFrame", "returnFrameHD" >>

\* C1: when getLastFrameBlocking returns null for the low-res or the high-res
\* provider, the tick returns FALSE at once and the timer source is removed;
\* once the timer source is removed it stays removed and no tick starts.
C1_FrameFailureStops ==
    [][ /\ ( /\ pc \in {"getSD", "getHD"}
             /\ Len(log') = Len(log) + 1
             /\ ~Last(log').ok )
           => (pc' = "idle" /\ lastRet' = "FALSE" /\ detectTimer' = "removed")
        /\ detectTimer = "removed"
           => (detectTimer' = "removed" /\ pc' = "idle" /\ ticks' = ticks)
      ]_vars

C1_Witness ==
    /\ detectTimer = "removed"
    /\ pc = "idle"
    /\ Len(log) > 0
    /\ Last(log).op = "getLastFrameBlockingHD"
    /\ ~Last(log).ok

\* C2: a failed larodRunJob (ppReq, ppReqHD or infReq) is the last call of
\* its tick: the job is run once, nothing is cropped and the overlay list is
\* not touched, the tick returns FALSE, the timer source is removed and no
\* further tick starts.
C2_JobFailureAbortsTick ==
    /\ [] ( \A k \in 1 .. Len(log) :
              ( /\ log[k].op \in {"larodRunJob_ppReq", "larodRunJob_ppReqHD",
                                  "larodRunJob_infReq"}
                /\ ~log[k].ok )
              => /\ k = Len(log)
                 /\ \A j \in 1 .. (k - 1) : log[j].op # log[k].op
                 /\ pc = "idle"
                 /\ lastRet = "FALSE"
                 /\ detectTimer = "removed"
                 /\ cropLog = <<>> )
    /\ [][ detectTimer' = "removed"
           => UNCHANGED << object_overlays, cropLog >> ]_vars
    /\ [][ detectTimer = "removed"
           => UNCHANGED << detectTimer, ticks, log, outFiles >> ]_vars

C2_Witness ==
    /\ detectTimer = "removed"
    /\ Len(log) > 0
    /\ Last(log).op = "larodRunJob_infReq"
    /\ ~Last(log).ok
    /\ ticks = 2
    /\ Len(object_overlays) > 0

\* C3: the calls of a tick are a prefix of the fixed order (frame copy, ppReq,
\* HD frame copy, ppReqHD, four lseeks, infReq), and when the inference job
\* runs, ppReq of the same tick has succeeded and the detector input buffer
\* holds the conversion of this tick's low-res frame.
C3_StrictStepOrder ==
    /\ Len(log) <= Len(CallOrder)
    /\ \A k \in 1 .. Len(log) : log[k].op = CallOrder[k]
    /\ (InTick /\ pc = "inf")
       => /\ larodInputBuf = ticks
          /\ \E k \in 1 .. Len(log) :
               log[k].op = "larodRunJob_ppReq" /\ log[k].ok
    /\ \A k \in 1 .. Len(log) :
         (log[k].op = "larodRunJob_infReq" /\ log[k].ok)
         => outFiles[1][1].src = ticks

C3_Witness ==
    /\ ticks = 2
    /\ Len(log) > 0
    /\ Last(log).op = "larodRunJob_infReq"
    /\ Last(log).ok
    /\ outFiles[1][1].src = 2

\* C4: whenever the inference job is about to run, in the first and in every
\* later tick, the file position of each of the four output descriptors is
\* 0; a failed lseek ends the tick before the inference job; and the output
\* buffers parsed in a tick hold what the inference of that tick wrote.
C4_OutputsRewound ==
    /\ (InTick /\ pc = "inf") => \A k \in 1 .. 4 : fdPos[k] = 0
    /\ \A j \in 1 .. Len(log) :
         (log[j].op \in {"lseek1", "lseek2", "lseek3", "lseek4"} /\ ~log[j].ok)
         => (j = Len(log) /\ pc = "idle")
    /\ (InTick /\ pc \in {"count", "crop", "overlay"})
       => \A k \in 1 .. 4 : Len(outFiles[k]) = 1 /\ outFiles[k][1].src = ticks

C4_Witness ==
    /\ InTick
    /\ pc = "count"
    /\ ticks = 2
    /\ \A k \in 1 .. 4 : outFiles[k][1].src = 2 /\ fdPos[k] = TensorSize(k)

\* C5: a tick in which both frames were got and the three jobs succeeded
\* returns both frames (returnFrame on each provider) before it ends and
\* leaves the timer scheduled, whatever the detection count.
C5_FramesReturnedOnSuccess ==
    ( /\ pc = "idle"
      /\ \A op \in {"larodRunJob_ppReq", "larodRunJob_ppReqHD",
                    "larodRunJob_infReq"} :
           \E k \in 1 .. Len(log) : log[k].op = op /\ log[k].ok )
    => /\ \E k \in 1 .. Len(log) : log[k].op = "returnFrame"
       /\ \E k \in 1 .. Len(log) : log[k].op = "returnFrameHD"
       /\ detectTimer = "scheduled"

\* C6: after a tick whose inference reported a detection count of zero the
\* timer is still scheduled, nothing was cropped and the overlay list is
\* empty.
C6_ZeroCountEmptyResult ==
    ( /\ pc = "idle"
      /\ lastRet = "TRUE"
      /\ DetectionCount = 0 )
    => /\ detectTimer = "scheduled"
       /\ cropLog = <<>>
       /\ Len(object_overlays) = 0

\* C7: in the crop loop, the detections encoded so far are exactly the
\* indices below i whose score is at least threshold / 100, each once and
\* each under the file name made from its index; when the loop has ended,
\* no index below the detection count is left.
C7_CropIffScorePasses ==
    pc \in {"crop", "overlay"}
    => LET passed == { k \in 0 .. (i - 1) : ReadF(scores, k) >= threshold }
       IN /\ { cropLog[j].index : j \in 1 .. Len(cropLog) } = passed
          /\ Len(cropLog) = Cardinality(passed)
          /\ \A j \in 1 .. Len(cropLog) :
               cropLog[j].file = << "/tmp/detection_", cropLog[j].index, ".jpg" >>
          /\ (pc = "overlay" => i >= DetectionCount)

C7_Witness ==
    /\ pc = "overlay"
    /\ Len(cropLog) >= 1
    /\ Len(cropLog) < DetectionCount
    /\ \E k \in 0 .. (DetectionCount - 1) : ReadF(scores, k) = threshold

\* C8: every record of the overlay list has a score of at least the
\* threshold percentage given at startup.
C8_OverlayScoresPassThreshold ==
    \A k \in 1 .. Len(object_overlays) :
        object_overlays[k].score >= args.threshold

\* C9: the threshold the score test uses in a tick is the threshold given on
\* the command line.
C9_ThresholdIsStartupParameter ==
    InTick => threshold = args.threshold

\* C10: the label table is never indexed with a class index outside
\* 0 .. numLabels - 1.
C10_LabelIndexInBounds ==
    \A idx \in labelAccess : 0 <= idx /\ idx < numLabels

\* C11: the rectangle of every crop lies inside the HD buffer:
\* crop_x + crop_w <= widthFrameHD and crop_y + crop_h <= heightFrameHD.
C11_CropInsideHDBuffer ==
    \A j \in 1 .. Len(cropLog) :
        /\ cropLog[j].rect.x + cropLog[j].rect.w <= widthFrameHD
        /\ cropLog[j].rect.y + cropLog[j].rect.h <= heightFrameHD

\* C12: for an HD frame at least as wide as high, the rectangle of every crop
\* is cropX = left * hdHeight + (hdWidth - hdHeight) / 2, cropY = top *
\* hdHeight, cropWidth = (right - left) * hdHeight, cropHeight = (bottom -
\* top) * hdHeight, converted to unsigned int; the box (0.25, 0.25, 0.75,
\* 0.75) in a 1280 x 720 frame gives (460, 180, 360, 360).
C12_CropRectangleFormula ==
    \A j \in 1 .. Len(cropLog) :
        LET b == BoxOf(cropLog[j].index)
            r == cropLog[j].rect
        IN widthFrameHD >= heightFrameHD
           => /\ r.x = (b.left * heightFrameHD) \div 100
                       + (widthFrameHD - heightFrameHD) \div 2
              /\ r.y = (b.top * heightFrameHD) \div 100
              /\ r.w = ((b.right - b.left) * heightFrameHD) \div 100
              /\ r.h = ((b.bottom - b.top) * heightFrameHD) \div 100
              /\ ( /\ b = [top |-> 25, left |-> 25, bottom |-> 75, right |-> 75]
                   /\ widthFrameHD = 1280 /\ heightFrameHD = 720 )
                 => r = [x |-> 460, y |-> 180, w |-> 360, h |-> 360]

C12_Witness ==
    \E j \in 1 .. Len(cropLog) :
        /\ BoxOf(cropLog[j].index) =
               [top |-> 25, left |-> 25, bottom |-> 75, right |-> 75]
        /\ widthFrameHD = 1280 /\ heightFrameHD = 720
        /\ cropLog[j].rect = [x |-> 460, y |-> 180, w |-> 360, h |-> 360]

\* C13: the rectangle of each overlay record is the affine map of the
\* detection's box computed from the stream's width and height
\* (stream_width, stream_height), not from the HD capture's.
C13_OverlayRectInStreamSpace ==
    ( /\ pc = "idle"
      /\ lastRet = "TRUE"
      /\ Len(log) > 0
      /\ Last(log).op = "returnFrameHD" )
    => \A k \in 1 .. Len(object_overlays) :
         LET b == BoxOf(k - 1)
             o == object_overlays[k]
         IN /\ o.left = (b.left * stream_height) \div 100
                         + (stream_width - stream_height) \div 2
            /\ o.top = (b.top * stream_height) \div 100
            /\ o.right = o.left + ((b.right - b.left) * stream_height) \div 100
            /\ o.bottom = o.top + ((b.bottom - b.top) * stream_height) \div 100

\* C14: object_overlays_length is never above the capacity of
\* object_overlays, and after a tick that stored the overlay records it is
\* the smaller of the detection count and the capacity.
C14_OverlayLengthBounded ==
    /\ object_overlays_length <= 5
    /\ ( /\ pc = "idle"
         /\ lastRet = "TRUE"
         /\ Len(log) > 0
         /\ Last(log).op = "returnFrameHD" )
       => object_overlays_length
            = (IF DetectionCount < 5 THEN DetectionCount ELSE 5)

\* C15: once a buffer is bound to a tensor or a tick has started, the pitch
\* of each RGB-interleaved output (low-res and high-res preprocessor) is
\* width * height * channels of that stage.
C15_PitchMismatchAborts ==
    (bound # {} \/ ticks > 0)
    => /\ pitches.ppOutput = args.width * args.height * 3
       /\ pitches.ppOutputHD = widthFrameHD * heightFrameHD * 3

\* C16: a tick is only ever started, and the detection timer only ever
\* scheduled, after a setup in which no step failed: the eight buffers are
\* mapped with open descriptors, the three models are loaded, the six tensor
\* arrays are retrieved and the nine bindings made, the three job requests
\* exist and the labels file, when one is given, has been loaded.  A setup
\* in which a step failed never reaches the main loop, and when main has
\* returned after it, it has returned EXIT_FAILURE.
C16_NoTickWithoutSetup ==
    /\ (ticks > 0 \/ detectTimer # "none" \/ mainPc = "loop")
       => /\ setupFailure.step = "none"
          /\ \A b \in DOMAIN buffers :
               buffers[b].creates = 1 /\ buffers[b].pages > 0
               /\ buffers[b].fd = "open"
          /\ DOMAIN buffers =
               { "ppInput", "larodInput", "ppInputHD", "ppOutputHD",
                 "larodOutput1", "larodOutput2", "larodOutput3", "larodOutput4" }
          /\ \A h \in { "model", "ppModel", "ppModelHD", "ppReq", "ppReqHD",
                         "infReq", "ppInputTensors", "ppOutputTensors",
                         "ppInputTensorsHD", "ppOutputTensorsHD",
                         "inputTensors", "outputTensors" } :
               handles[h] = "live"
          /\ Cardinality(bound) = 9
          /\ (args.labelsFile.present => numLabels > 0 /\ Len(labels) = numLabels)
    /\ setupFailure.step # "none"
       => /\ ticks = 0 /\ detectTimer = "none"
          /\ mainPc \in {"end", "exited", "crashed"}
          /\ (mainPc = "exited" => exitStatus = "EXIT_FAILURE")

\* The setup failed while creating the job requests, after every buffer was
\* allocated and bound, and main has returned EXIT_FAILURE without a tick.
C16_Witness ==
    /\ mainPc = "exited"
    /\ setupFailure.step = "larodCreateJobRequest"
    /\ Cardinality(bound) = 9
    /\ exitStatus = "EXIT_FAILURE"
    /\ ticks = 0

\* C17: a createAndMapTmpFile call that failed has left nothing behind: its
\* descriptor is not open, nothing is mapped, its temp file is not linked
\* in the file system, and the caller's address and descriptor variables are
\* as they were before the call.
C17_FailedTmpFileReleased ==
    \A j \in 1 .. Len(failedCalls) :
        LET c == failedCalls[j]
        IN /\ c.result.fd # "open"
           /\ c.result.pages = 0
           /\ ~c.result.linked
           /\ c.buffer \notin tmpFiles
           /\ buffers[c.buffer].addr = "MAP_FAILED"
           /\ buffers[c.buffer].fd = "-1"

\* C18: when main has returned, no page of any buffer is still mapped, no
\* buffer descriptor is open, and no model and no job request is live.
C18_AllReleasedAtExit ==
    mainPc = "exited"
    => /\ \A b \in DOMAIN buffers :
            buffers[b].pages = 0 /\ buffers[b].fd # "open"
       /\ \A h \in { "model", "ppModel", "ppModelHD",
                      "ppReq", "ppReqHD", "infReq" } :
            handles[h] # "live"

\* C19: each buffer is created at most once and only by the setup; once
\* created, its size and its mapping stay as they are until the teardown,
\* which unmaps it and closes its descriptor at most once each and only if
\* it was created; while a tick runs, every buffer is mapped and open.
C19_BufferLifecycle ==
    /\ [] ( /\ \A b \in DOMAIN buffers :
                 /\ buffers[b].creates <= 1
                 /\ buffers[b].unmaps <= buffers[b].creates
                 /\ buffers[b].closes <= buffers[b].creates
                 /\ (buffers[b].unmaps > 0 \/ buffers[b].closes > 0)
                    => mainPc = "exited"
                 /\ mainPc = "start" => buffers[b].creates = 0
            /\ (mainPc = "loop" /\ pc # "idle")
               => \A b \in DOMAIN buffers :
                    /\ buffers[b].addr = "mapped"
                    /\ buffers[b].fd = "open"
                    /\ buffers[b].pages > 0 )
    /\ [][ \A b \in DOMAIN buffers :
             /\ buffers'[b].creates # buffers[b].creates => mainPc = "start"
             /\ buffers[b].creates = 1
                => /\ buffers'[b].size = buffers[b].size
                   /\ buffers'[b].creates = 1
                   /\ (buffers'[b] # buffers[b]
                       => mainPc = "end" /\ mainPc' = "exited") ]_vars

\* A setup that failed between two buffers has been torn down: the buffers
\* created were unmapped and closed once, the others were not touched.
C19_Witness ==
    /\ mainPc = "exited"
    /\ \E b \in DOMAIN buffers :
         buffers[b].creates = 1 /\ buffers[b].unmaps = 1 /\ buffers[b].closes = 1
    /\ \E b \in DOMAIN buffers :
         buffers[b].creates = 0 /\ buffers[b].unmaps = 0 /\ buffers[b].closes = 0

\* C20: a kept detection whose crop or encoding failed is skipped: the
\* encoder is never called without a crop buffer, and nothing is written to
\* a detection's file without an encoded image.
C20_FailedCropSkipped ==
    \A j \in 1 .. Len(imageCalls) :
        /\ imageCalls[j].crop # "NULL"
        /\ imageCalls[j].jpeg # "NULL"

\* C21: while a tick is in progress no other tick starts and the overlay
\* callback does not run: between two steps of a tick the tick counter and
\* the drawn rectangles stay as they are, the overlay list changes only in
\* the step that ends the tick or stops the program, and a tick starts only
\* when none is in progress.
C21_TicksDoNotOverlap ==
    [][ /\ pc # "idle"
           => /\ ticks' = ticks
              /\ bboxDrawn' = bboxDrawn
              /\ (object_overlays' # object_overlays
                  \/ object_overlays_length' # object_overlays_length)
                 => (pc' = "idle" \/ mainPc' = "crashed")
        /\ ticks' # ticks => (pc = "idle" /\ pc' # "idle") ]_vars

\* A second tick is in progress after the overlay of the first was drawn.
C21_Witness ==
    /\ ticks = 2
    /\ pc = "crop"
    /\ Len(bboxDrawn) > 0
    /\ Len(object_overlays) > 0

\* C22: the job requests, tensor bindings, parameter maps and model handles
\* are made by the setup only: once the main loop runs, no step changes a
\* handle or a binding; every job a tick runs is one of ppReq, ppReqHD and
\* infReq, each at most once per tick and all three in a tick that returns
\* TRUE, and each of them is live while a tick runs.
C22_JobRequestsBuiltOnce ==
    /\ [][ /\ mainPc = "loop" => (handles' = handles /\ bound' = bound)
           /\ (handles' # handles \/ bound' # bound)
              => mainPc \in {"start", "end"} ]_vars
    /\ [] ( /\ \A k \in 1 .. Len(log) :
                 log[k].op \in {"larodRunJob_ppReq", "larodRunJob_ppReqHD",
                                "larodRunJob_infReq"}
                 => \A j \in 1 .. Len(log) : log[j].op = log[k].op => j = k
            /\ (pc = "idle" /\ lastRet = "TRUE" /\ mainPc = "loop")
               => \A op \in {"larodRunJob_ppReq", "larodRunJob_ppReqHD",
                              "larodRunJob_infReq"} :
                    \E k \in 1 .. Len(log) : log[k].op = op
            /\ (mainPc = "loop" /\ pc # "idle")
               => /\ \A h \in {"ppReq", "ppReqHD", "infReq", "model", "ppModel",
                                 "ppModelHD", "ppMap", "ppMapHD", "cropMap"} :
                       handles[h] = "live"
                  /\ Cardinality(bound) = 9 )

\* The second tick has run its three jobs and returned TRUE.
C22_Witness ==
    /\ ticks = 2
    /\ pc = "idle" /\ lastRet = "TRUE"
    /\ \E k \in 1 .. Len(log) : log[k].op = "larodRunJob_infReq" /\ log[k].ok
    /\ handles["infReq"] = "live"
    /\ Cardinality(bound) = 9

\* C23: every buffer that is bound to a tensor was created with the byte
\* size pitches[0] of that tensor reports: the low-res preprocessor's input
\* buffer with the pitch of its input tensor, the detector input buffer with
\* the pitch of the low-res output tensor, the high-res output buffer with
\* the pitch of the high-res output tensor.
C23_BufferSizeFromPitch ==
    /\ << "ppInputTensors[0]", "ppInput" >> \in bound
       => buffers["ppInput"].size = yuyvBufferSize
    /\ << "ppOutputTensors[0]", "larodInput" >> \in bound
       => buffers["larodInput"].size = pitches.ppOutput
    /\ << "ppOutputTensorsHD[0]", "ppOutputHD" >> \in bound
       => buffers["ppOutputHD"].size = pitches.ppOutputHD

\* C24: no buffer is bound as the output of two tensors; a buffer bound to
\* two tensors is the detector input buffer, bound to one output tensor (the
\* low-res preprocessor's) and one input tensor (the detector's); and in a
\* tick the frame copies write the two preprocessor input buffers only: the
\* detector input buffer, the high-res output buffer and the detector output
\* files change only in a step that ends with the successful run of the job
\* whose output they are (the files are also filled with zeroes when the
\* setup creates them).
C24_OneWriterPerBuffer ==
    /\ [] ( \A b \in BufferSet :
              LET ts == { t \in { bnd[1] : bnd \in bound } : << t, b >> \in bound }
              IN /\ Cardinality(ts \cap OutputTensorNames) <= 1
                 /\ Cardinality(ts) > 1
                    => /\ b = "larodInput"
                       /\ ts = {"ppOutputTensors[0]", "inputTensors[0]"} )
    /\ [][ /\ ppInputBuf' # ppInputBuf
              => (pc = "pp" /\ \E k \in 1 .. Len(log') : log'[k].op = "memcpy")
           /\ ppInputBufHD' # ppInputBufHD
              => (pc = "ppHD" /\ \E k \in 1 .. Len(log') : log'[k].op = "memcpyHD")
           /\ larodInputBuf' # larodInputBuf
              => Last(log') = [op |-> "larodRunJob_ppReq", ok |-> TRUE]
           /\ ppOutputBufHD' # ppOutputBufHD
              => Last(log') = [op |-> "larodRunJob_ppReqHD", ok |-> TRUE]
           /\ outFiles' # outFiles
              => \/ mainPc = "start"
                 \/ /\ Len(log') > 0
                    /\ Last(log') = [op |-> "larodRunJob_infReq", ok |-> TRUE]
           /\ (\E k \in 1 .. Len(log') :
                   log'[k].op = "memcpy" /\ Last(log').ok = FALSE /\ pc = "pp")
              => larodInputBuf' = larodInputBuf ]_vars

\* All nine bindings are made and the second tick has copied both frames and
\* run all three jobs.
C24_Witness ==
    /\ Cardinality(bound) = 9
    /\ ticks = 2
    /\ ppInputBuf = 2 /\ ppInputBufHD = 2 /\ larodInputBuf = 2
    /\ \E k \in 1 .. Len(log) : log[k] = [op |-> "larodRunJob_infReq", ok |-> TRUE]

\* The lines of a file: the byte runs between newlines, a newline at the
\* end of the file ending the last line.  LineBegins are their first
\* positions (from 1) in ascending order.
LineBegins(data) ==
    Ascending({1} \cup { k + 1 : k \in { j \in 1 .. (Len(data) - 1) : data[j] = NL } })

FileLines(data) ==
    LET begins == LineBegins(data)
    IN [ n \in 1 .. Len(begins) |->
           LET ends == { k \in begins[n] .. Len(data) : data[k] = NL }
               stop == IF ends = {} THEN Len(data) + 1
                       ELSE CHOOSE e \in ends : \A f \in ends : e <= f
           IN SubSeq(data, begins[n], stop - 1) ]

\* C25: after parseLabels returned true there is one label per line of the
\* file, and label k is line k, cut to its first LINE_MAX_LEN bytes when the
\* line is longer.
C25_LabelsAreLines ==
    mainPc = "parsed"
    => LET lines == FileLines(args.labelsFile.data)
       IN /\ numLabels = Len(lines)
          /\ Len(labels) = numLabels
          /\ \A k \in 1 .. numLabels :
               LET label == CStr(labelFileData, labels[k])
               IN /\ Len(label) <= LINE_MAX_LEN
                  /\ label = SubSeq(lines[k], 1,
                                    IF Len(lines[k]) < LINE_MAX_LEN
                                    THEN Len(lines[k]) ELSE LINE_MAX_LEN)

\* C27: every terminator parseLabels stores to cap a line lies inside the
\* data buffer (offsets 0 .. file size) and inside the bytes of the line it
\* caps, the line's newline included, or for the last line at the
\* terminator that follows the file contents.
C27_CapInsideLine ==
    mainPc \in {"parsed", "crashed"}
    => LET data == args.labelsFile.data
           lines == FileLines(data)
       IN \A w \in CapWrites(Terminated(data), labels, 1) :
            /\ w.pos <= Len(data)
            /\ w.pos >= labels[w.line]
            /\ \/ w.pos <= labels[w.line] + Len(lines[w.line])
               \/ w.line = Len(lines) /\ w.pos = Len(data)

\* C26: an HD capture that is taller than wide is rejected by the setup:
\* with heightFrameHD > widthFrameHD the main loop is never entered, no tick
\* runs, and no crop rectangle and no overlay record is computed.
C26_TallCaptureRejected ==
    heightFrameHD > widthFrameHD
    => /\ mainPc # "loop"
       /\ ticks = 0
       /\ cropLog = <<>>
       /\ object_overlays = <<>>

\* C28: every index at which the crop loop reads the detector's output
\* buffers lies inside the mapped tensors: when an iteration is about to
\* run, locations[4 * i + 3] is one of the 80 floats of the first tensor and
\* classes[i] and scores[i] are among the 20 floats of the second and third.
C28_ReadsInsideTensors ==
    (InTick /\ pc = "crop" /\ i < DetectionCount)
    => /\ 4 * i + 3 < TENSOR1SIZE \div FLOATSIZE
       /\ i < TENSOR2SIZE \div FLOATSIZE
       /\ i < TENSOR3SIZE \div FLOATSIZE

\* C29: a tick that fails returns the frames it got before it ends: when
\* the first tick has returned FALSE (a frame fetch, a preprocessing job, a
\* rewind or the inference failed), no frame of either provider is held.
C29_FramesReturnedOnFailure ==
    (ticks = 1 /\ pc = "idle" /\ lastRet = "FALSE")
    => (sdHeld = 0 /\ hdHeld = 0)

\* C30: when createImgProvider gave no high-res provider, the setup has
\* stopped there: no buffer is created or bound to a tensor, the detection
\* timer is not scheduled and no tick runs.
C30_NoHdProviderAborts ==
    ( /\ mainPc # "start"
      /\ handles["sdImageProvider"] # "NULL"
      /\ widthFrameHD # 0
      /\ handles["hdImageProvider"] = "NULL" )
    => /\ bound = {}
       /\ \A b \in BufferSet : buffers[b].creates = 0
       /\ detectTimer = "none"
       /\ ticks = 0

\* C31: once the detection callback has returned FALSE and its timer is
\* removed, main eventually leaves g_main_loop_run and reaches the end label
\* (and from there the return).
C31_StoppedLoopReachesTeardown ==
    (mainPc = "loop" /\ detectTimer = "removed")
    ~> (mainPc \in {"end", "exited"})

\* C32: the label copied into an overlay record fits the record's class
\* field: its bytes and the terminator are at most CLASS_FIELD_SIZE bytes.
C32_LabelFitsClassField ==
    \A k \in 1 .. Len(object_overlays) :
        Len(object_overlays[k].class) + 1 <= CLASS_FIELD_SIZE

\* C33: a buffer that the teardown has unmapped was unmapped with the byte
\* size it was created with, so none of its pages is left mapped.
C33_UnmapSizeIsMapSize ==
    mainPc = "exited"
    => \A k \in 1 .. Len(BufferNames) :
         LET buf == buffers[BufferNames[k]]
         IN buf.unmaps = 1
            => /\ UnmapSize(k, yuyvBufferSize, args.width, args.height,
                            widthFrameHD, heightFrameHD) = buf.size
               /\ buf.pages = 0

\* C34: munmap is only called on an address createAndMapTmpFile returned: a
\* buffer that was not created is not unmapped, and cropAddr, which is never
\* assigned a mapping, is never passed to munmap.
C34_MunmapOnlyMapped ==
    /\ \A b \in BufferSet : buffers[b].unmaps <= buffers[b].creates
    /\ cropAddr.unmaps = 0

\* C35: in the teardown every release call that is given the connection is
\* given it while it is open: no call receives the connection variable after
\* larodDisconnect has closed the connection and set the variable to NULL.
C35_ReleaseWhileConnected ==
    \A k \in 1 .. Len(releaseCalls) :
        releaseCalls[k].conn # "none"
        => /\ releaseCalls[k].conn = "open"
           /\ \A j \in 1 .. k - 1 : releaseCalls[j].call # "larodDisconnect"

\* C36: the number of bytes a tick copies into a preprocessor input buffer
\* is the size the buffer was mapped with, and the buffer is mapped while
\* the tick runs, so the copy ends at the end of the mapping.
C36_CopyFitsBuffer ==
    \A b \in {"ppInput", "ppInputHD"} :
        copied[b] # 0
        => /\ copied[b] = buffers[b].size
           /\ copied[b] <= buffers[b].pages * 4096
           /\ InTick => buffers[b].addr = "mapped"

\* Both inputs have been filled in the second tick, on the stream whose
\* high-res frame is taller than wide.
C36_Witness ==
    /\ ticks = 2 /\ pc = "rewind1"
    /\ copied["ppInput"] = yuyvBufferSize
    /\ copied["ppInputHD"] = (widthFrameHD * heightFrameHD * 3) \div 2
    /\ heightFrameHD > widthFrameHD

\* C37: parseLabels on a file of 0 bytes stays inside its 1-byte buffer: the
\* bound of the line-counting loop does not wrap (it is not above the file
\* size), the call returns, and the table it returns has one entry per
\* counted line, each pointing inside the buffer.
C37_EmptyFileInBounds ==
    (args.labelsFile = EmptyLabelsFile /\ mainPc # "start")
    => /\ countLoopEnd <= Len(args.labelsFile.data)
       /\ mainPc = "parsed"
       /\ numLabels = Len(labels)
       /\ \A k \in 1 .. Len(labels) : labels[k] <= Len(args.labelsFile.data)

====
